---- MODULE Spec2Model ----
(***************************************************************************)
(* The content pipeline of contents/tasks.py and the Write and Read APIs   *)
(* of contents/views.py as a state machine over the relational Store       *)
(* declared in contents/models.py.                                         *)
(*                                                                         *)
(* Library behaviour the handlers rely on is modelled as the library       *)
(* defines it:                                                             *)
(*  - requests: Response.raise_for_status raises HTTPError for a 4xx/5xx   *)
(*    status only; HTTPError and ConnectionError are RequestExceptions;    *)
(*    a transport failure raises out of requests.get/post, so the name     *)
(*    bound by `response = requests.post(...)` stays unbound.              *)
(*  - Django: QuerySet.get/filter resolve each keyword against the model's *)
(*    fields and raise FieldError for a keyword that names none;           *)
(*    get_or_create is get, then create on DoesNotExist; update_or_create  *)
(*    is get, then setattr of the defaults and save, or create.            *)
(*  - Celery: Task.retry(exc=e) computes retries = request.retries + 1;    *)
(*    if retries > max_retries it re-raises e (MaxRetriesExceededError is  *)
(*    raised only when no exc is given); otherwise it sends the retry      *)
(*    message, with the countdown as its earliest delivery, and raises     *)
(*    Retry. A task defined with @app.task and no name is registered as    *)
(*    <module>.<function>; beat sends each entry's message by the name the *)
(*    entry gives, and a worker that has no task of a message's name drops *)
(*    the message (NotRegistered).                                         *)
(*  - Django writes: no transaction is opened by the views, so each        *)
(*    statement commits on its own; bulk_create of two rows that break a   *)
(*    unique constraint raises IntegrityError and inserts neither.         *)
(*  - Django lookups: filter(author_id=v) and filter(contenttag__tag_id=v) *)
(*    convert v with int() and raise ValueError for a value int() refuses. *)
(*  - SQL: `/` on two integer operands is the integer quotient (SQLite,    *)
(*    PostgreSQL); Case(..., output_field=FloatField()) emits no cast, and *)
(*    Cast(x, FloatField()) casts the value of x after x was computed.     *)
(*    SUM over no row is NULL, which aggregate() returns as None.          *)
(*  - Paginator: num_pages = ceil(max(1, count) / per_page); get_page      *)
(*    answers a page number below 1 or above num_pages with the last page. *)
(***************************************************************************)
EXTENDS Integers, Sequences, FiniteSets, TLC

VARIABLES
    authors,      \* Author table: sequence of rows, the index is the row id
    contents,     \* Content table: sequence of rows, the index is the row id
    tags,         \* Tag table: sequence of names, the index is the row id
    contentTags,  \* ContentTag table: set of <<content id, tag id>>
    source,       \* the external content source: page -> [data, next]
    pull,         \* the pull_and_store_content run
    ai,           \* the post_ai_comments run
    chains,       \* the post_final_comment retry chains (messages and attempts)
    posted,       \* what the Write API was sent: the last item per unq_external_id
                  \* and the <<unq_external_id, hashtag>> pairs
    reply,        \* the response of the API request made last, until it is taken
    beat          \* the scheduler's clock and the messages it has sent

vars == <<authors, contents, tags, contentTags, source, pull, ai, chains, posted, reply,
          beat>>

----------------------------------------------------------------------------
(* Bounds of the model *)

MaxRows == 3            \* Content rows the Store may hold
MaxChains == 1          \* post_final_comment chains in flight at a time
MaxPages == 2           \* pages of the external source

(* Program constants *)

max_retries == 3        \* @app.task(..., max_retries=3)

Null == "None"

\* A nullable column: <<>> is NULL, <<v>> holds v.
NULL == <<>>

UniqueIds == {"c1", "c2"}
Titles == {<<"a">>, <<"b">>}       \* text is a sequence of characters
TagNames == {"t1", "t2"}
CommentTexts == {"nice"}

----------------------------------------------------------------------------
(* The Store: contents/models.py *)

\* The names a Content lookup keyword may resolve to (Content's fields).
ContentFields ==
    {"id", "author", "author_id", "unique_id", "url", "title", "like_count",
     "comment_count", "view_count", "share_count", "thumbnail_url", "timestamp",
     "big_metadata", "secret_value", "is_commented", "created_at", "update_at"}

\* Content(**kwargs): the fields the model gives a default when not supplied.
ContentDefaults ==
    [url |-> "", title |-> <<>>, like_count |-> 0, comment_count |-> 0,
     view_count |-> 0, share_count |-> 0, thumbnail_url |-> Null,
     timestamp |-> NULL, is_commented |-> FALSE]

\* f overridden by g on g's domain.
Override(f, g) == [k \in DOMAIN f \cup DOMAIN g |-> IF k \in DOMAIN g THEN g[k] ELSE f[k]]

\* Content.objects.filter(unique_id=uid): the ids of the matching rows.
RowsWithUniqueId(rows, uid) == {i \in DOMAIN rows : rows[i].unique_id = uid}

\* Content(**kwargs).save(): INSERT of a row; the NOT NULL foreign key author
\* has no default, so a row without it is rejected by the Store.
create(rows, kwargs) ==
    IF "author" \notin DOMAIN kwargs
    THEN [rows |-> rows, exc |-> "IntegrityError"]
    ELSE [rows |-> Append(rows, Override(ContentDefaults, kwargs)), exc |-> "none"]

\* A bug of get_or_create: the lookup is skipped and a row is always inserted.
get_or_create_always_creates(rows, kwargs) ==
    [rows |-> Append(rows, Override(Override(ContentDefaults, [author |-> 0]),
                                    [k \in DOMAIN kwargs \cap ContentFields |-> kwargs[k]])),
     exc |-> "none"]

\* A bug of get_or_create: a keyword that names no field is dropped instead of
\* refused, and the row is inserted without an author.
get_or_create_drops_unknown(rows, kwargs) ==
    LET known == [k \in DOMAIN kwargs \cap ContentFields |-> kwargs[k]]
        m == {i \in DOMAIN rows : \A k \in DOMAIN known : rows[i][k] = known[k]}
    IN  IF Cardinality(m) = 1 THEN [rows |-> rows, exc |-> "none"]
        ELSE IF Cardinality(m) > 1
             THEN [rows |-> rows, exc |-> "MultipleObjectsReturned"]
             ELSE [rows |-> Append(rows, Override(Override(ContentDefaults,
                                                           [author |-> 0]), known)),
                   exc |-> "none"]

\* Content.objects.get_or_create(**kwargs): get(**kwargs), else create(**kwargs).
\* get resolves every keyword against Content's fields first.
get_or_create(rows, kwargs) ==
    IF ~(DOMAIN kwargs \subseteq ContentFields)
    THEN [rows |-> rows, exc |-> "FieldError"]
    ELSE LET m == {i \in DOMAIN rows : \A k \in DOMAIN kwargs : rows[i][k] = kwargs[k]}
         IN  IF Cardinality(m) = 1 THEN [rows |-> rows, exc |-> "none"]
             ELSE IF Cardinality(m) > 1
                  THEN [rows |-> rows, exc |-> "MultipleObjectsReturned"]
                  ELSE create(rows, kwargs)

\* A bug of update_or_create: the matched row is replaced by a fresh instance
\* built from the defaults, so the fields the defaults do not name are reset.
update_or_create_resets(rows, uid, defaults) ==
    LET m == RowsWithUniqueId(rows, uid)
        fresh == Override(ContentDefaults, Override([unique_id |-> uid], defaults))
    IN  IF Cardinality(m) = 1
        THEN LET i == CHOOSE j \in m : TRUE
             IN  [rows |-> [rows EXCEPT ![i] = fresh], id |-> i, exc |-> "none"]
        ELSE IF Cardinality(m) > 1
             THEN [rows |-> rows, id |-> 0, exc |-> "MultipleObjectsReturned"]
             ELSE [rows |-> Append(rows, fresh), id |-> Len(rows) + 1, exc |-> "none"]

\* A bug of update_or_create: it acts as get_or_create, and the matching row
\* keeps the fields it has.
update_or_create_keeps(rows, uid, defaults) ==
    LET m == RowsWithUniqueId(rows, uid)
    IN  IF Cardinality(m) = 1
        THEN [rows |-> rows, id |-> CHOOSE j \in m : TRUE, exc |-> "none"]
        ELSE IF Cardinality(m) > 1
             THEN [rows |-> rows, id |-> 0, exc |-> "MultipleObjectsReturned"]
             ELSE [rows |-> Append(rows, Override(ContentDefaults,
                                     Override([unique_id |-> uid], defaults))),
                   id |-> Len(rows) + 1, exc |-> "none"]

\* Content.objects.update_or_create(unique_id=uid, defaults=defaults): the one
\* matching row gets the defaults set and is saved; no row: one is created
\* from the lookup and the defaults; several rows: MultipleObjectsReturned.
update_or_create(rows, uid, defaults) ==
    LET m == RowsWithUniqueId(rows, uid)
    IN  IF Cardinality(m) = 1
        THEN LET i == CHOOSE j \in m : TRUE
             IN  [rows |-> [rows EXCEPT ![i] = Override(rows[i], defaults)],
                  id |-> i, exc |-> "none"]
        ELSE IF Cardinality(m) > 1
             THEN [rows |-> rows, id |-> 0, exc |-> "MultipleObjectsReturned"]
             ELSE [rows |-> Append(rows, Override(ContentDefaults,
                                     Override([unique_id |-> uid], defaults))),
                   id |-> Len(rows) + 1, exc |-> "none"]

\* Author.objects.update_or_create(unique_id=..., defaults={...}); unique_id is
\* unique, so at most one row matches.
update_or_create_author(rows, a) ==
    LET m == {i \in DOMAIN rows : rows[i].unique_id = a.unique_external_id}
        row == [unique_id |-> a.unique_external_id, username |-> a.unique_name,
                name |-> a.full_name, url |-> a.url, title |-> a.title,
                followers |-> 0]
    IN  IF m # {}
        THEN LET i == CHOOSE j \in m : TRUE
             IN  [rows |-> [rows EXCEPT ![i] = Override(rows[i],
                              [username |-> a.unique_name, name |-> a.full_name,
                               url |-> a.url, title |-> a.title])],
                  id |-> i]
        ELSE [rows |-> Append(rows, row), id |-> Len(rows) + 1]

\* The names of seq in order of first occurrence, without those in have.
RECURSIVE FirstOccurrences(_, _)
FirstOccurrences(seq, have) ==
    IF seq = <<>> THEN <<>>
    ELSE IF Head(seq) \in have THEN FirstOccurrences(Tail(seq), have)
         ELSE <<Head(seq)>> \o FirstOccurrences(Tail(seq), have \cup {Head(seq)})

Range(seq) == {seq[i] : i \in DOMAIN seq}

\* Tag.objects.get(name=n).id in a Tag table where names are unique.
TagId(tagRows, n) == CHOOSE i \in DOMAIN tagRows : tagRows[i] = n

\* The loop over hashtags that fills tags_to_create: a Tag for every name that
\* is not in existing_tags, each name once (the dict is filled as it goes).
tags_to_create(tagRows, hashtags) == FirstOccurrences(hashtags, Range(tagRows))

\* The loop over hashtags that fills content_tags_to_create: one ContentTag for
\* every list entry whose name is not among the content's tags read before.
content_tags_to_create(tagRows, links, cid, hashtags) ==
    LET existing_content_tags == {tagRows[l[2]] : l \in {x \in links : x[1] = cid}}
        todo == SelectSeq(hashtags, LAMBDA n : n \notin existing_content_tags)
    IN  [i \in DOMAIN todo |-> <<cid, TagId(tagRows, todo[i])>>]

\* ContentTag.objects.bulk_create(batch) under the unique_content_tag
\* constraint: one INSERT, rejected whole if it would store a pair twice.
bulk_create_content_tags(links, batch) ==
    IF \/ \E i, j \in DOMAIN batch : i # j /\ batch[i] = batch[j]
       \/ Range(batch) \cap links # {}
    THEN [links |-> links, exc |-> "IntegrityError"]
    ELSE [links |-> links \cup Range(batch), exc |-> "none"]

----------------------------------------------------------------------------
(* Write API: ContentAPIView.post, one validated item of the request *)

Thumb == "http://t"
Thumbs == [t \in Titles |-> IF t = <<"a">> THEN Thumb ELSE "http://u"]

AuthorPayloads ==
    {[unique_external_id |-> "u1", unique_name |-> <<"a", "n", "n">>, full_name |-> "Ann",
      url |-> "http://ann", title |-> "dr"],
     [unique_external_id |-> "u2", unique_name |-> <<"b", "o", "b">>, full_name |-> "Bob",
      url |-> "http://bob", title |-> "mr"]}

StatsPayloads ==
    {[likes |-> 0, comments |-> 0, shares |-> 0, views |-> 0],
     [likes |-> 10, comments |-> 5, shares |-> 2, views |-> 4]}

HashtagLists == {<<>>, <<"t1">>, <<"t1", "t2">>, <<"t1", "t1">>}

Payload(a, u, t, s, h) ==
    [author |-> a, unq_external_id |-> u, title |-> t, thumbnail_view_url |-> Thumbs[t],
     stats |-> s, hashtags |-> h]

Payloads ==
    {Payload(a, u, t, s, h) : a \in AuthorPayloads, u \in UniqueIds, t \in Titles,
                               s \in StatsPayloads, h \in HashtagLists}

\* The payloads the pipeline specification posts.
PipelinePayloads ==
    {p \in Payloads : /\ p.hashtags = <<>>
                      /\ p.author.unique_external_id = "u1"
                      /\ (p.title = <<"a">>) = (p.stats.likes = 0)}

\* The four tables of the Store.
Store == [authors |-> authors, contents |-> contents, tags |-> tags,
          contentTags |-> contentTags]

\* The body of the loop over the request's items: the Store after each of its
\* writes, which are not wrapped in a transaction, so that a write that raises
\* leaves the earlier ones in place.
post_item(st, p) ==
    LET au == update_or_create_author(st.authors, p.author)
        co == update_or_create(st.contents, p.unq_external_id,
                  [author |-> au.id, title |-> p.title,
                   thumbnail_url |-> p.thumbnail_view_url,
                   like_count |-> p.stats.likes,
                   comment_count |-> p.stats.comments,
                   share_count |-> p.stats.shares,
                   view_count |-> p.stats.views])
        tg == st.tags \o tags_to_create(st.tags, p.hashtags)
        ct == bulk_create_content_tags(st.contentTags,
                  content_tags_to_create(tg, st.contentTags, co.id, p.hashtags))
    IN  IF co.exc # "none"
        THEN [authors |-> au.rows, contents |-> st.contents, tags |-> st.tags,
              contentTags |-> st.contentTags, exc |-> co.exc]
        ELSE [authors |-> au.rows, contents |-> co.rows, tags |-> tg,
              contentTags |-> ct.links, exc |-> ct.exc]

\* for content_data in data: the loop ends at the first item that raises.
\* done: the items whose pass of the loop ended without an exception.
RECURSIVE post_items(_, _, _)
post_items(st, data, done) ==
    IF data = <<>> THEN [store |-> st, exc |-> "none", done |-> done]
    ELSE LET r == post_item(st, Head(data))
             after == [authors |-> r.authors, contents |-> r.contents,
                       tags |-> r.tags, contentTags |-> r.contentTags]
         IN  IF r.exc # "none" THEN [store |-> after, exc |-> r.exc, done |-> done]
             ELSE post_items(after, Tail(data), done + 1)

NoReply == [kind |-> "none"]

\* POST /contents/ with a single object (data of length 1) or a list: 201 with
\* the items echoed, or the exception of the failing item (a 500 response).
ContentAPIView_post(data) ==
    LET r == post_items(Store, data, 0)
    IN  /\ Len(r.store.contents) <= MaxRows
        /\ authors' = r.store.authors
        /\ contents' = r.store.contents
        /\ tags' = r.store.tags
        /\ contentTags' = r.store.contentTags
        /\ reply' = [kind |-> "post", status |-> IF r.exc = "none" THEN 201 ELSE 500,
                     exc |-> r.exc, done |-> r.done]
        /\ UNCHANGED <<source, pull, ai, chains, beat>>

\* The items of data the loop took up: all, or those up to the one that raised.
Taken(data) ==
    LET r == post_items(Store, data, 0)
    IN  SubSeq(data, 1, IF r.exc = "none" THEN r.done ELSE r.done + 1)

\* What the fields of the Content row are to be after the item p.
Sent(p) ==
    [author |-> p.author.unique_external_id, title |-> p.title,
     thumbnail_url |-> p.thumbnail_view_url, like_count |-> p.stats.likes,
     comment_count |-> p.stats.comments, share_count |-> p.stats.shares,
     view_count |-> p.stats.views]

\* The record of the items the loop took up, in order: last, the fields sent
\* last for each unq_external_id; pairs, the <<unq_external_id, hashtag>> pairs
\* sent; again, the unq_external_ids sent again with other likes.
RECURSIVE Record(_, _)
Record(seen, items) ==
    IF items = <<>> THEN seen
    ELSE LET p == Head(items)
             u == p.unq_external_id
         IN  Record([last |-> Override(seen.last, [x \in {u} |-> Sent(p)]),
                     pairs |-> seen.pairs \cup {<<u, p.hashtags[i]>> : i \in DOMAIN p.hashtags},
                     again |-> IF u \in DOMAIN seen.last
                                  /\ seen.last[u].like_count # p.stats.likes
                               THEN seen.again \cup {u} ELSE seen.again],
                    Tail(items))

NothingPosted == [last |-> <<>>, pairs |-> {}, again |-> {}]

\* A request to the Write API of which no record is kept.
Post(data) == ContentAPIView_post(data) /\ UNCHANGED posted

\* A request to the Write API, recorded.
RecordedPost(data) == ContentAPIView_post(data) /\ posted' = Record(posted, Taken(data))

----------------------------------------------------------------------------
(* Ingestion Task: pull_and_store_content *)

Item(u, t) ==
    [unq_external_id |-> u, title |-> t, thumbnail_view_url |-> Thumb,
     author |-> [unique_name |-> <<"a", "n", "n">>]]

\* The data arrays a page of the external source may hold.
PageData ==
    {<<>>, <<Item("c1", <<"a">>)>>, <<Item("c1", <<"b">>), Item("c2", <<"a">>)>>}

\* pagination.next is a page number, or 0 for a falsy value.
Sources == [1..MaxPages -> [data : PageData, next : 0..MaxPages]]

\* What requests.get and raise_for_status make of the page request.
PageResults == {"ok", "ConnectionError", "HTTPError"}

\* The keywords of the get_or_create call for one item of a page.
item_kwargs(content) ==
    [unique_id |-> content.unq_external_id,
     title |-> content.title,
     thumbnail_url |-> content.thumbnail_view_url,
     author_username |-> content.author.unique_name]

\* for content in content_data["data"]: get_or_create(...). An exception ends
\* the loop; the rows stored before it stay.
RECURSIVE store_items(_, _)
store_items(rows, items) ==
    IF items = <<>> THEN [rows |-> rows, exc |-> "none"]
    ELSE LET r == get_or_create(rows, item_kwargs(Head(items)))
         IN  IF r.exc # "none" THEN r ELSE store_items(r.rows, Tail(items))

\* A bug of the except branch: the failed page is skipped and the loop goes on
\* with the following page instead of breaking.
on_request_error_continues(run) ==
    [run EXCEPT !.page = IF run.page < MaxPages THEN run.page + 1 ELSE 1,
                !.end = "RequestException"]

\* except requests.exceptions.RequestException: print, break; the task returns.
on_request_error(run) == [run EXCEPT !.pc = "idle", !.end = "RequestException"]

\* pc, page: the position of the run. end: how the loop of the last run ended
\* ("break": next was falsy, "RequestException": the except branch, "raised":
\* an exception left the task, named by exc). seen: the unq_external_ids of
\* the data arrays the run has read. unchanged: a run has started and the
\* source has not changed since; same: this run meets the source as the run
\* before it met it, and no request of that run failed.
IdlePull ==
    [pc |-> "idle", page |-> 1, end |-> "none", exc |-> "none", seen |-> {},
     same |-> FALSE, unchanged |-> FALSE]

\* The run a worker starts after the run `run`: page = 1.
pull_started(run) ==
    [pc |-> "running", page |-> 1, end |-> "none", exc |-> "none", seen |-> {},
     same |-> run.unchanged /\ run.end # "RequestException", unchanged |-> TRUE]

\* A worker takes a message of the task and starts a run.
pull_start ==
    /\ pull.pc = "idle"
    /\ pull' = pull_started(pull)
    /\ UNCHANGED <<authors, contents, tags, contentTags, source, ai, chains, posted, reply, beat>>

\* One pass of the while loop: request the page, store its items, move on.
pull_page(res) ==
    /\ pull.pc = "running"
    /\ IF res # "ok"
       THEN /\ pull' = on_request_error(pull)
            /\ contents' = contents
       ELSE LET content_data == source[pull.page]
                r == store_items(contents, content_data.data)
                saw == pull.seen \cup
                         {content_data.data[i].unq_external_id :
                             i \in DOMAIN content_data.data}
            IN  /\ Len(r.rows) <= MaxRows
                /\ contents' = r.rows
                /\ pull' = IF r.exc # "none"
                           THEN [pull EXCEPT !.pc = "idle", !.end = "raised",
                                             !.exc = r.exc, !.seen = saw]
                           ELSE IF content_data.next # 0
                           THEN [pull EXCEPT !.page = content_data.next, !.seen = saw]
                           ELSE [pull EXCEPT !.pc = "idle", !.end = "break", !.seen = saw]
    /\ UNCHANGED <<authors, tags, contentTags, source, ai, chains, posted, reply, beat>>

\* The external source changes one of its pages, between or during runs.
SourceChange(p, d, n) ==
    /\ source[p] # [data |-> d, next |-> n]
    /\ source' = [source EXCEPT ![p] = [data |-> d, next |-> n]]
    /\ pull' = [pull EXCEPT !.same = FALSE, !.unchanged = FALSE]
    /\ UNCHANGED <<authors, contents, tags, contentTags, ai, chains, posted, reply, beat>>

----------------------------------------------------------------------------
(* Comment-Post Task: post_final_comment *)

SkipPhrase == "This content is not available for commenting"

\* An HTTP response: its status and the lines of its body.
Response(status, text) == [status |-> status, text |-> text]

\* requests.post raised before any response arrived.
NoResponse == [status |-> 0, text |-> <<>>]

FinalResponses ==
    {Response(200, <<>>), Response(201, <<>>),
     Response(400, <<SkipPhrase>>), Response(400, <<"Bad request">>),
     Response(500, <<>>), Response(503, <<>>), NoResponse}

\* phrase in response.text
Contains(text, phrase) == \E i \in DOMAIN text : text[i] = phrase

\* response.raise_for_status(): HTTPError for a 4xx or 5xx status.
raise_for_status(response) == response.status >= 400 /\ response.status < 600

\* A bug of the retry budget: the budget is taken to be spent one retry early.
retry_off_by_one(retries) ==
    IF retries + 1 >= max_retries THEN "HTTPError" ELSE "Retry"

\* self.retry(exc=e, countdown=30) on a request that was retried `retries`
\* times: past max_retries the given exc (the HTTPError) is raised, otherwise
\* the retry message is sent and Retry is raised.
retry(retries) ==
    IF retries + 1 > max_retries THEN "HTTPError" ELSE "Retry"

\* A bug of the except branch: every 400 is retried like a 503.
is_transient_any_4xx_5xx(response) == response.status = 503 \/ response.status = 400

\* if response.status_code == 503
is_transient(response) == response.status = 503

\* One invocation of the task body on the outcome of its POST:
\*   update: the UPDATE of is_commented was issued,
\*   resend: a retry message was sent,
\*   raised: the exception that left the task body ("none": it returned).
attempt(response, retries) ==
    IF response = NoResponse
    THEN \* the except branch reads response, which was never bound
         [update |-> FALSE, resend |-> FALSE, raised |-> "UnboundLocalError"]
    ELSE IF ~raise_for_status(response)
    THEN [update |-> response.status = 200, resend |-> FALSE, raised |-> "none"]
    ELSE IF is_transient(response)
    THEN LET r == retry(retries)
         IN  IF r = "MaxRetriesExceededError"
             THEN [update |-> FALSE, resend |-> FALSE, raised |-> "none"]
             ELSE [update |-> FALSE, resend |-> r = "Retry", raised |-> r]
    ELSE IF response.status = 400 /\ Contains(response.text, SkipPhrase)
    THEN [update |-> FALSE, resend |-> FALSE, raised |-> "none"]
    ELSE [update |-> FALSE, resend |-> FALSE, raised |-> "none"]

\* Content.objects.filter(unique_id=content_id).update(is_commented=True)
mark_commented(rows, content_id) ==
    [i \in DOMAIN rows |->
        IF rows[i].unique_id = content_id
        THEN [rows[i] EXCEPT !.is_commented = TRUE] ELSE rows[i]]

Chains == 1..MaxChains

\* self.retry(exc=e, countdown=30): the seconds before which the retry message
\* is not handed to a worker.
countdown == 30

\* A bug of the retry: the message is sent without a countdown.
eta_at_once(seconds) == 0

\* The time a message sent with countdown=seconds has still to wait.
eta(seconds) == seconds

\* pc: "queued" (the chain's message is on final_comment_post and no attempt of
\* the chain executes), "running" (an attempt has sent its POST), "retrying"
\* (the attempt has sent the retry message and Retry is on its way out of the
\* task body), "done". eta: the seconds the message on the queue has still to
\* wait. executing: the attempts of the chain that execute.
NoChain ==
    [pc |-> "none", content_id |-> Null, comment_text |-> Null, retries |-> 0,
     posts |-> 0, last |-> NoResponse, only503 |-> TRUE, updates |-> 0,
     raised |-> "none", eta |-> 0, executing |-> 0]

\* post_final_comment.delay(content_id, comment_text) for each comment of the
\* list, each in the first free slot.
RECURSIVE delay_all(_, _)
delay_all(ch, comments) ==
    IF comments = <<>> THEN ch
    ELSE LET c == CHOOSE x \in Chains :
                     ch[x].pc = "none" /\ \A y \in Chains : ch[y].pc = "none" => x <= y
         IN  delay_all([ch EXCEPT ![c] = [NoChain EXCEPT !.pc = "queued",
                                             !.content_id = Head(comments).content_id,
                                             !.comment_text = Head(comments).comment_text]],
                       Tail(comments))

\* A bug of the fan-out loop: the last comment of the list is left out.
delay_all_but_last(ch, comments) ==
    IF comments = <<>> THEN ch ELSE delay_all(ch, SubSeq(comments, 1, Len(comments) - 1))

\* for ai_comment in ai_comments: post_final_comment.delay(...)
fan_out(ch, comments) == delay_all(ch, comments)

\* A worker takes the chain's message off final_comment_post, once it is due,
\* and sends the POST.
post_final_comment_begin(c) ==
    /\ chains[c].pc \in {"queued", "retrying"}
    /\ chains[c].eta = 0
    /\ chains' = [chains EXCEPT ![c].pc = "running", ![c].posts = @ + 1,
                                ![c].executing = @ + 1]
    /\ UNCHANGED <<authors, contents, tags, contentTags, source, pull, ai, posted, reply, beat>>

\* The POST ends with `response` and the rest of the task body runs: to its
\* end, or to the point where self.retry has sent the retry message.
post_final_comment_end(c, response) ==
    /\ chains[c].pc = "running"
    /\ LET o == attempt(response, chains[c].retries)
       IN  /\ contents' = IF o.update
                          THEN mark_commented(contents, chains[c].content_id)
                          ELSE contents
           /\ chains' = [chains EXCEPT
                  ![c].pc = IF o.resend THEN "retrying" ELSE "done",
                  ![c].retries = IF o.resend THEN @ + 1 ELSE @,
                  ![c].eta = IF o.resend THEN eta(countdown) ELSE @,
                  ![c].executing = IF o.resend THEN @ ELSE @ - 1,
                  ![c].last = response,
                  ![c].only503 = @ /\ response.status = 503,
                  ![c].updates = IF o.update THEN @ + 1 ELSE @,
                  ![c].raised = o.raised]
    /\ UNCHANGED <<authors, tags, contentTags, source, pull, ai, posted, reply, beat>>

\* Retry leaves the task body and the worker records the retry: the attempt
\* that sent the retry message has ended.
post_final_comment_raise(c) ==
    /\ chains[c].pc = "retrying"
    /\ chains' = [chains EXCEPT ![c].pc = "queued", ![c].executing = @ - 1]
    /\ UNCHANGED <<authors, contents, tags, contentTags, source, pull, ai, posted, reply, beat>>

\* The countdown of the chain's message passes. Raising Retry is the last
\* thing the attempt does after sending the message and takes no time on the
\* scale of the countdown.
countdown_passes(c) ==
    /\ chains[c].pc = "queued"
    /\ chains[c].eta > 0
    /\ chains' = [chains EXCEPT ![c].eta = 0]
    /\ UNCHANGED <<authors, contents, tags, contentTags, source, pull, ai, posted, reply, beat>>

\* The worker is done with a chain that scheduled no further attempt: its
\* message is acknowledged and nothing of the chain is kept.
post_final_comment_ack(c) ==
    /\ chains[c].pc = "done"
    /\ chains' = [chains EXCEPT ![c] = NoChain]
    /\ UNCHANGED <<authors, contents, tags, contentTags, source, pull, ai, posted, reply, beat>>

----------------------------------------------------------------------------
(* Comment-Request Task: post_ai_comments *)

AiComments == [content_id : UniqueIds, comment_text : CommentTexts]

\* The lists of comments the AI service may answer with.
AiResponses ==
    {<<>>} \cup {<<x>> : x \in AiComments} \cup {<<x, y>> : x, y \in AiComments}

\* rows: the number of rows the run's queryset returned; todo: the ids of the
\* rows the loop has still to visit; sent: the ids of the rows whose request
\* was made, in order; failed: the ids of the rows whose request failed;
\* again: the ids of the rows whose request was made when the row's
\* is_commented was true already.
IdleAi ==
    [pc |-> "idle", todo |-> <<>>, rows |-> 0, sent |-> <<>>, failed |-> {},
     again |-> {}]

\* A bug of the queryset: the rows already commented are left out.
not_commented(rows) == SelectSeq([i \in DOMAIN rows |-> i], LAMBDA i : ~rows[i].is_commented)

\* Content.objects.all(): the ids of all rows, in order.
all(rows) == [i \in DOMAIN rows |-> i]

\* The request for the row the loop is at is made: its payload is built from
\* unique_id, title, url and the author's username, and from nothing else.
requested(run, rows) ==
    LET i == Head(run.todo)
    IN  [run EXCEPT !.sent = Append(@, i),
                    !.again = IF rows[i].is_commented THEN @ \cup {i} ELSE @]

\* The end of one pass of the loop: the next row, or the task returns.
next_row(run) ==
    IF Len(run.todo) = 1 THEN [run EXCEPT !.pc = "returned", !.todo = <<>>]
    ELSE [run EXCEPT !.todo = Tail(@)]

\* A bug of the except branch: the exception ends the loop.
on_comment_request_error_aborts(run) == [run EXCEPT !.pc = "returned", !.todo = <<>>]

\* except requests.exceptions.RequestException: print; the loop goes on.
on_comment_request_error(run) == next_row(run)

\* The messages of chains `after` that chains `before` did not hold.
Enqueued(before, after) ==
    {c \in Chains : before[c].pc = "none" /\ after[c].pc = "queued"}

\* The run a worker starts over the rows of the Content table.
ai_started(rows) ==
    [IdleAi EXCEPT !.pc = "running", !.rows = Len(rows), !.todo = all(rows)]

\* contents = Content.objects.all(); the loop reads the rows once, at its start
\* (with no row the loop body never runs and the task has no effect).
post_ai_comments_start ==
    /\ ai.pc = "idle"
    /\ contents # <<>>
    /\ ai' = ai_started(contents)
    /\ UNCHANGED <<authors, contents, tags, contentTags, source, pull, chains, posted, reply, beat>>

\* One pass of the loop whose request fails (requests.post raises, or
\* raise_for_status raises for a 4xx or 5xx status): print, next row.
post_ai_comments_error ==
    /\ ai.pc = "running"
    /\ ai' = on_comment_request_error([requested(ai, contents) EXCEPT
                                           !.failed = @ \cup {Head(ai.todo)}])
    /\ UNCHANGED <<authors, contents, tags, contentTags, source, pull, chains, posted, reply, beat>>

\* One pass of the loop whose request succeeds: a task per comment returned.
post_ai_comments_row(ai_comments) ==
    /\ ai.pc = "running"
    /\ Len(ai_comments) <= Cardinality({c \in Chains : chains[c].pc = "none"})
    /\ chains' = fan_out(chains, ai_comments)
    /\ ai' = next_row(requested(ai, contents))
    /\ UNCHANGED <<authors, contents, tags, contentTags, source, pull, posted, reply, beat>>

\* The task returns; nothing of the run is kept.
post_ai_comments_return ==
    /\ ai.pc = "returned"
    /\ ai' = IdleAi
    /\ UNCHANGED <<authors, contents, tags, contentTags, source, pull, chains, posted, reply, beat>>

----------------------------------------------------------------------------
(* The scheduler (celery beat) and the worker's task registry *)

\* Messages of the scheduler that may wait for a worker at a time.
MaxQueued == 3

\* The names the tasks are registered under: @app.task without a name gives
\* a task the name of its module and function.
registered ==
    {"contents.tasks.pull_and_store_content", "contents.tasks.post_ai_comments",
     "contents.tasks.post_final_comment"}

\* app.conf.beat_schedule: the task each entry names and its period, in ticks
\* of 30 seconds (crontab(minute='*/1'): every minute; 30.0: every 30 s).
beat_schedule ==
    ("pull-content-every-minute" :>
        [task |-> "contentapi.tasks.pull_and_store_content", every |-> 2]) @@
    ("post-ai-comments-every-30-seconds" :>
        [task |-> "contentapi.tasks.post_ai_comments", every |-> 1])

\* now: the ticks since the last full minute; queue: the names of the messages
\* sent and not yet taken by a worker; outcome: what the worker made of the
\* message it took last.
IdleBeat == [now |-> 0, queue |-> <<>>, outcome |-> "none"]

\* The names of the entries due at tick t, the minute's entry first.
due(t) ==
    (IF t % beat_schedule["pull-content-every-minute"].every = 0
     THEN <<beat_schedule["pull-content-every-minute"].task>> ELSE <<>>) \o
    (IF t % beat_schedule["post-ai-comments-every-30-seconds"].every = 0
     THEN <<beat_schedule["post-ai-comments-every-30-seconds"].task>> ELSE <<>>)

\* 30 seconds pass: the scheduler sends a message for every entry that is due.
\* It looks at no run and at no earlier message.
beat_tick ==
    LET t == (beat.now + 1) % 2
    IN  /\ Len(beat.queue) + Len(due(t)) <= MaxQueued
        /\ beat' = [beat EXCEPT !.now = t, !.queue = @ \o due(t)]
        /\ UNCHANGED <<authors, contents, tags, contentTags, source, pull, ai, chains,
                       posted, reply>>

\* A worker takes the oldest message: it starts the task registered under the
\* message's name, or finds none (NotRegistered) and drops the message.
worker_receive ==
    /\ beat.queue # <<>>
    /\ LET name == Head(beat.queue)
       IN  /\ name = "contents.tasks.pull_and_store_content" => pull.pc = "idle"
           /\ name = "contents.tasks.post_ai_comments" => ai.pc = "idle"
           /\ beat' = [beat EXCEPT !.queue = Tail(@),
                                   !.outcome = IF name \in registered THEN "started"
                                               ELSE "NotRegistered"]
           /\ pull' = IF name = "contents.tasks.pull_and_store_content"
                      THEN pull_started(pull) ELSE pull
           /\ ai' = IF name = "contents.tasks.post_ai_comments" /\ contents # <<>>
                    THEN ai_started(contents) ELSE ai
    /\ UNCHANGED <<authors, contents, tags, contentTags, source, chains, posted, reply>>

----------------------------------------------------------------------------
(* Read API: ContentAPIView.get and ContentStatsAPIView.get *)

DEFAULT_PAGE_SIZE == 10
MAX_PAGE_SIZE == 100

\* The day of timezone.now(); a timestamp is a day number.
Today == 10

Digit ==
    ("0" :> 0) @@ ("1" :> 1) @@ ("2" :> 2) @@ ("3" :> 3) @@ ("4" :> 4) @@
    ("5" :> 5) @@ ("6" :> 6) @@ ("7" :> 7) @@ ("8" :> 8) @@ ("9" :> 9)

\* str.strip() of blanks.
RECURSIVE strip(_)
strip(text) ==
    IF text = <<>> THEN text
    ELSE IF Head(text) = " " THEN strip(Tail(text))
    ELSE IF text[Len(text)] = " " THEN strip(SubSeq(text, 1, Len(text) - 1))
    ELSE text

RECURSIVE digits_value(_, _)
digits_value(text, acc) ==
    IF text = <<>> THEN acc ELSE digits_value(Tail(text), acc * 10 + Digit[Head(text)])

\* int(text) of a str: blanks stripped, an optional sign, then decimal digits;
\* anything else is a ValueError (ok = FALSE).
int(text) ==
    LET t == strip(text)
        signed == t # <<>> /\ Head(t) \in {"-", "+"}
        body == IF signed THEN Tail(t) ELSE t
    IN  IF body # <<>> /\ \A i \in DOMAIN body : body[i] \in DOMAIN Digit
        THEN [ok |-> TRUE,
              value |-> IF signed /\ Head(t) = "-" THEN 0 - digits_value(body, 0)
                        ELSE digits_value(body, 0)]
        ELSE [ok |-> FALSE, value |-> 0]

ToLower == ("A" :> "a") @@ ("B" :> "b") @@ ("C" :> "c") @@ ("D" :> "d") @@ ("T" :> "t")

lower(ch) == IF ch \in DOMAIN ToLower THEN ToLower[ch] ELSE ch

\* title__icontains=needle: needle is a substring of text, letter case aside.
icontains(text, needle) ==
    \E k \in 0..(Len(text) - Len(needle)) :
        \A i \in 1..Len(needle) : lower(text[k + i]) = lower(needle[i])

\* A request's query string: a function from the names supplied to their
\* values, sequences of characters.
\* request.query_params.get(name) is truthy.
supplied(q, name) == name \in DOMAIN q /\ q[name] # <<>>

\* A queryset: the ids of its rows in order, or the exception that building
\* it raised.
QuerySet(ids) == [exc |-> "none", ids |-> ids]
Raised(exc) == [exc |-> exc, ids |-> <<>>]

\* Content.objects ... .order_by('-id')
ordered_by_id_desc == QuerySet([k \in 1..Len(contents) |-> Len(contents) + 1 - k])

\* Content.objects.all()
all_contents == QuerySet([k \in 1..Len(contents) |-> k])

\* queryset.filter(...): the rows of the queryset that are among the rows the
\* condition keeps.
where(qs, kept) ==
    IF qs.exc # "none" THEN qs ELSE QuerySet(SelectSeq(qs.ids, LAMBDA i : i \in kept))

\* .filter(author_id=v): v is converted with int() when the lookup is built.
by_author_id(qs, q) ==
    IF ~supplied(q, "author_id") THEN qs
    ELSE LET n == int(q["author_id"])
         IN  IF qs.exc # "none" THEN qs
             ELSE IF ~n.ok THEN Raised("ValueError")
             ELSE where(qs, {i \in DOMAIN contents : contents[i].author = n.value})

\* .filter(author__username=v)
by_author_username(qs, q) ==
    IF ~supplied(q, "author_username") THEN qs
    ELSE where(qs, {i \in DOMAIN contents :
                       authors[contents[i].author].username = q["author_username"]})

\* .filter(timestamp__gte=now - timedelta(days=int(v))); a value int() refuses
\* is passed over. A NULL timestamp compares to nothing.
by_timeframe(qs, q) ==
    IF ~supplied(q, "timeframe") THEN qs
    ELSE LET days == int(q["timeframe"])
         IN  IF ~days.ok THEN qs
             ELSE where(qs, {i \in DOMAIN contents :
                                /\ contents[i].timestamp # NULL
                                /\ contents[i].timestamp[1] >= Today - days.value})

\* A bug of the tag filter: it is applied to all rows, not to the queryset so
\* far.
by_tag_id_over_all(qs, q) ==
    IF ~supplied(q, "tag_id") THEN qs
    ELSE LET n == int(q["tag_id"])
         IN  IF qs.exc # "none" THEN qs
             ELSE IF ~n.ok THEN Raised("ValueError")
             ELSE where(ordered_by_id_desc, {l[1] : l \in {x \in contentTags : x[2] = n.value}})

\* .filter(contenttag__tag_id=v): the join gives a row per matching ContentTag.
by_tag_id(qs, q) ==
    IF ~supplied(q, "tag_id") THEN qs
    ELSE LET n == int(q["tag_id"])
         IN  IF qs.exc # "none" THEN qs
             ELSE IF ~n.ok THEN Raised("ValueError")
             ELSE where(qs, {l[1] : l \in {x \in contentTags : x[2] = n.value}})

\* .filter(title__icontains=v)
by_title(qs, q) ==
    IF ~supplied(q, "title") THEN qs
    ELSE where(qs, {i \in DOMAIN contents : icontains(contents[i].title, q["title"])})

\* The five filters, in the order both views apply them.
filtered(qs, q) ==
    by_title(by_tag_id(by_timeframe(by_author_username(by_author_id(qs, q), q), q), q), q)

\* a / b in SQL on two integer operands: the integer quotient.
sql_divide(a, b) == a \div b

\* A float: the quotient num / den.
Float(num, den) == [num |-> num, den |-> den]

\* F('like_count') + F('comment_count') + F('share_count')
total_engagement(row) == row.like_count + row.comment_count + row.share_count

\* Cast(total / Case(When(view_count=0, then=1), default=F('view_count')),
\* FloatField()): the division is made on the integer operands, and its result
\* is cast.
engagement_rate(row) ==
    Float(sql_divide(total_engagement(row),
                     IF row.view_count = 0 THEN 1 ELSE row.view_count), 1)

\* One item of the response: the row with its two annotations.
annotated(i) ==
    [id |-> i, total_engagement |-> total_engagement(contents[i]),
     engagement_rate |-> engagement_rate(contents[i])]

\* ceil(a / b) for b > 0
ceil_div(a, b) == (a + b - 1) \div b

Max(a, b) == IF a >= b THEN a ELSE b

\* A bug of the page size: the ceiling is not applied.
page_size_unbounded(n) == n

\* min(int(...), self.MAX_PAGE_SIZE)
page_size(n) == IF n <= MAX_PAGE_SIZE THEN n ELSE MAX_PAGE_SIZE

\* Lines 92-100: both parameters are parsed in one try; a ValueError of either
\* sets both to their defaults.
page_params(q) ==
    LET pg == IF "page" \in DOMAIN q THEN int(q["page"]) ELSE [ok |-> TRUE, value |-> 1]
        ipp == IF "items_per_page" \in DOMAIN q THEN int(q["items_per_page"])
               ELSE [ok |-> TRUE, value |-> DEFAULT_PAGE_SIZE]
    IN  IF pg.ok /\ ipp.ok
        THEN [page |-> pg.value, items_per_page |-> page_size(ipp.value)]
        ELSE [page |-> 1, items_per_page |-> DEFAULT_PAGE_SIZE]

\* Paginator(queryset, per_page).get_page(number) and the fields read from it.
\* num_pages = ceil(max(1, count) / per_page) divides by per_page; a page number
\* out of 1..num_pages is replaced by num_pages; with per_page < 0 num_pages is
\* below 1 and no page number is valid.
Paginator_get_page(ids, per_page, number) ==
    LET count == Len(ids)
        num_pages == ceil_div(Max(1, count), per_page)
        n == IF number < 1 \/ number > num_pages THEN num_pages ELSE number
        bottom == (n - 1) * per_page
        top == IF bottom + per_page >= count THEN count ELSE bottom + per_page
    IN  IF per_page = 0 THEN [exc |-> "ZeroDivisionError"]
        ELSE IF per_page < 0 THEN [exc |-> "EmptyPage"]
        ELSE [exc |-> "none", object_list |-> SubSeq(ids, bottom + 1, top),
              number |-> n, num_pages |-> num_pages, count |-> count,
              has_next |-> n < num_pages, has_previous |-> n > 1]

\* The response of GET /contents/ to the query q. selected: the ids of the
\* filtered queryset, of which data is one page.
list_response(q) ==
    LET qs == filtered(ordered_by_id_desc, q)
        pp == page_params(q)
        page_obj == Paginator_get_page(qs.ids, pp.items_per_page, pp.page)
    IN  IF qs.exc # "none"
        THEN [kind |-> "list", status |-> 500, exc |-> qs.exc, query |-> q]
        ELSE IF page_obj.exc # "none"
        THEN [kind |-> "list", status |-> 500, exc |-> page_obj.exc, query |-> q]
        ELSE [kind |-> "list", status |-> 200, exc |-> "none", query |-> q,
              selected |-> qs.ids,
              data |-> [k \in DOMAIN page_obj.object_list |->
                           annotated(page_obj.object_list[k])],
              pagination |-> [current_page |-> page_obj.number,
                              total_pages |-> page_obj.num_pages,
                              total_items |-> page_obj.count,
                              items_per_page |-> pp.items_per_page,
                              has_next |-> page_obj.has_next,
                              has_previous |-> page_obj.has_previous]]

RECURSIVE SumOf(_)
SumOf(numbers) == IF numbers = <<>> THEN 0 ELSE Head(numbers) + SumOf(Tail(numbers))

\* The values of an expression over the rows of a queryset.
values(ids, column) == [k \in DOMAIN ids |-> column[ids[k]]]

\* Sum(expression) in aggregate(), over the expression's values: NULL over no
\* row.
Sum(numbers) == IF numbers = <<>> THEN NULL ELSE <<SumOf(numbers)>>

\* F(field) over the Content table.
F(field) == [i \in DOMAIN contents |-> contents[i][field]]

\* The response of GET /contents/stats/ to the query q.
stats_response(q) ==
    LET qs == filtered(all_contents, q)
        followers == [i \in DOMAIN contents |-> authors[contents[i].author].followers]
        one == [i \in DOMAIN contents |-> 1]
        engagement == [i \in DOMAIN contents |-> total_engagement(contents[i])]
        rate == [i \in DOMAIN contents |-> engagement_rate(contents[i]).num]
    IN  IF qs.exc # "none"
        THEN [kind |-> "stats", status |-> 500, exc |-> qs.exc, query |-> q]
        ELSE [kind |-> "stats", status |-> 200, exc |-> "none", query |-> q,
              total_likes |-> Sum(values(qs.ids, F("like_count"))),
              total_shares |-> Sum(values(qs.ids, F("share_count"))),
              total_comments |-> Sum(values(qs.ids, F("comment_count"))),
              total_views |-> Sum(values(qs.ids, F("view_count"))),
              total_followers |-> Sum(values(qs.ids, followers)),
              total_contents |-> Sum(values(qs.ids, one)),
              total_engagement |-> Sum(values(qs.ids, engagement)),
              total_engagement_rate |-> Sum(values(qs.ids, rate))]

\* GET /contents/?...
ContentAPIView_get(q) ==
    /\ reply = NoReply
    /\ reply' = list_response(q)
    /\ UNCHANGED <<authors, contents, tags, contentTags, source, pull, ai, chains, posted, beat>>

\* GET /contents/stats/?...
ContentStatsAPIView_get(q) ==
    /\ reply = NoReply
    /\ reply' = stats_response(q)
    /\ UNCHANGED <<authors, contents, tags, contentTags, source, pull, ai, chains, posted, beat>>

\* The client takes the response.
take_reply ==
    /\ reply # NoReply
    /\ reply' = NoReply
    /\ UNCHANGED <<authors, contents, tags, contentTags, source, pull, ai, chains, posted, beat>>

----------------------------------------------------------------------------
(* The system *)

Init ==
    /\ authors = <<>>
    /\ contents = <<>>
    /\ tags = <<>>
    /\ contentTags = {}
    /\ source \in Sources
    /\ pull = IdlePull
    /\ ai = IdleAi
    /\ chains = [c \in Chains |-> NoChain]
    /\ posted = NothingPosted
    /\ reply = NoReply
    /\ beat = IdleBeat

\* The source of a system whose external source is left aside.
QuietSource == [p \in 1..MaxPages |-> [data |-> <<>>, next |-> 0]]

\* The payloads and responses of the specifications below.
SeedPayloads == {p \in PipelinePayloads : p.title = <<"a">>}
StoreResponses == {Response(200, <<>>), Response(500, <<>>)}
StoreSources ==
    {s \in Sources : s[1].next = 0 /\ \A p \in 1..MaxPages : p > 1 => s[p] = QuietSource[p]}

\* The runs of post_ai_comments in which every request succeeds.
AiOkSteps ==
    \/ post_ai_comments_start
    \/ \E r \in AiResponses : post_ai_comments_row(r)
    \/ post_ai_comments_return

AiSteps ==
    \/ AiOkSteps
    \/ post_ai_comments_error

ChainSteps(responses) ==
    \/ \E c \in Chains : post_final_comment_begin(c)
    \/ \E c \in Chains, r \in responses : post_final_comment_end(c, r)
    \/ \E c \in Chains : post_final_comment_ack(c)

\* The steps between an attempt that retries and the next attempt.
RetrySteps ==
    \/ \E c \in Chains : post_final_comment_raise(c)
    \/ \E c \in Chains : countdown_passes(c)

PullSteps ==
    \/ pull_start
    \/ \E res \in PageResults : pull_page(res)

Next ==
    \/ \E p \in Payloads : Post(<<p>>)
    \/ PullSteps
    \/ \E p \in 1..MaxPages, d \in PageData, n \in 0..MaxPages : SourceChange(p, d, n)
    \/ AiSteps
    \/ ChainSteps(FinalResponses)
    \/ RetrySteps

\* The whole system: every handler with every input.
Spec == Init /\ [][Next]_vars

\* The comment pipeline: the Write API, the Comment-Request task with every
\* request answered, and the Comment-Post task with every response.
NextPost ==
    \/ \E p \in SeedPayloads : Post(<<p>>)
    \/ AiOkSteps
    \/ ChainSteps(FinalResponses)
    \/ RetrySteps

InitPost == Init /\ source = QuietSource

SpecPost == InitPost /\ [][NextPost]_vars

\* The Comment-Request task with requests that fail, beside the Write API and
\* the Comment-Post task with the responses that end a chain.
NextRequest ==
    \/ \E p \in SeedPayloads : Post(<<p>>)
    \/ AiSteps
    \/ ChainSteps(StoreResponses)

SpecRequest == InitPost /\ [][NextRequest]_vars

\* Ingestion: the Ingestion Task, the changing source and the Write API.
NextPull ==
    \/ \E p \in SeedPayloads : Post(<<p>>)
    \/ PullSteps
    \/ \E p \in 1..MaxPages, d \in PageData, n \in 0..MaxPages : SourceChange(p, d, n)

SpecPull == Init /\ [][NextPull]_vars

\* The writers of the Content table, interleaved.
NextStore ==
    \/ \E p \in PipelinePayloads : Post(<<p>>)
    \/ PullSteps
    \/ AiOkSteps
    \/ ChainSteps(StoreResponses)

InitStore == Init /\ source \in StoreSources

SpecStore == InitStore /\ [][NextStore]_vars

\* The Write API alone: single items and lists of two items.
WritePayloads ==
    {p \in Payloads : /\ (p.title = <<"a">>) = (p.author.unique_external_id = "u1")
                      /\ (p.stats.likes = 0) = (p.author.unique_external_id = "u1")}

WriteRequests ==
    {<<p>> : p \in WritePayloads} \cup
    {<<p, q>> : p \in {x \in WritePayloads : x.unq_external_id = "c1"},
                q \in {x \in WritePayloads : x.unq_external_id = "c2"
                                               /\ x.hashtags \in {<<>>, <<"t1">>}}}

NextWrite == \E data \in WriteRequests : RecordedPost(data)

InitWrite == Init /\ source = QuietSource

SpecWrite == InitWrite /\ [][NextWrite]_vars

\* The scheduler and the worker that takes its messages, beside the Write API.
NextBeat ==
    \/ beat_tick
    \/ worker_receive
    \/ \E p \in PipelinePayloads : Post(<<p>>)

InitBeat == Init /\ source = QuietSource

SpecBeat == InitBeat /\ [][NextBeat]_vars

\* The Read API over a Store that does not change. The rows are of four
\* kinds; a Store holds up to MaxRows rows of any kinds, or about
\* MAX_PAGE_SIZE rows.
Kinds == 1..4

KindRow ==
    <<[author |-> 1, title |-> <<"C", "a", "t">>, timestamp |-> <<Today - 3>>,
       like_count |-> 10, comment_count |-> 5, share_count |-> 2, view_count |-> 0],
      [author |-> 1, title |-> <<"c", "a", "r">>, timestamp |-> <<Today - 8>>,
       like_count |-> 10, comment_count |-> 5, share_count |-> 2, view_count |-> 4],
      [author |-> 2, title |-> <<"d", "o", "t">>, timestamp |-> NULL,
       like_count |-> 0, comment_count |-> 0, share_count |-> 0, view_count |-> 0],
      [author |-> 2, title |-> <<"A", "c", "t">>, timestamp |-> <<Today>>,
       like_count |-> 1, comment_count |-> 1, share_count |-> 1, view_count |-> 2]>>

KindTags == <<{1}, {1, 2}, {}, {2}>>

ReadAuthors ==
    LET a1 == CHOOSE a \in AuthorPayloads : a.unique_external_id = "u1"
        a2 == CHOOSE a \in AuthorPayloads : a.unique_external_id = "u2"
    IN  update_or_create_author(update_or_create_author(<<>>, a1).rows, a2).rows

\* The Store whose i-th Content row is of kind ks[i].
StoreOf(ks) ==
    [authors |-> ReadAuthors,
     contents |-> [i \in DOMAIN ks |->
                     Override(ContentDefaults,
                              Override([unique_id |-> ToString(i),
                                        thumbnail_url |-> Thumb], KindRow[ks[i]]))],
     tags |-> <<"t1", "t2">>,
     contentTags |-> {<<i, t>> : i \in DOMAIN ks, t \in {1, 2}} \cap
                     UNION {{<<i, t>> : t \in KindTags[ks[i]]} : i \in DOMAIN ks}]

MaxStored == 102

ReadStores ==
    {StoreOf(ks) : ks \in UNION {[1..n -> Kinds] : n \in 0..MaxRows}} \cup
    {StoreOf([i \in 1..n |-> (i % 4) + 1]) : n \in (MAX_PAGE_SIZE - 1)..MaxStored}

\* The query strings: for each name, not supplied or one of the values.
QueryValues ==
    [author_id |-> {<<>>, <<"1">>, <<"2">>, <<"x">>},
     author_username |-> {<<"a", "n", "n">>, <<"z", "e", "d">>},
     timeframe |-> {<<"5">>, <<"x">>},
     tag_id |-> {<<"1">>, <<"2">>},
     title |-> {<<"c", "A">>},
     page |-> {<<>>, <<"x">>, <<"0">>, <<"-", "1">>, <<"2">>, <<" ", "3">>},
     items_per_page |-> {<<>>, <<"x">>, <<"0">>, <<"-", "5">>, <<"1">>, <<"2">>,
                         <<"1", "0", "0">>, <<"1", "0", "0", "0">>}]

FilterNames == {"author_id", "author_username", "timeframe", "tag_id", "title"}
PageNames == {"page", "items_per_page"}

Queries(names) ==
    UNION {{q \in [ns -> UNION {QueryValues[n] : n \in ns}] :
               \A n \in ns : q[n] \in QueryValues[n]} : ns \in SUBSET names}

FilterQueries == Queries(FilterNames)
PageQueries == Queries(PageNames)

\* A query with filters and page parameters.
MixedQueries ==
    {[author_id |-> <<"1">>, tag_id |-> <<"1">>, items_per_page |-> <<"1">>, page |-> <<"2">>],
     [title |-> <<"c", "A">>, items_per_page |-> <<"1", "0", "0", "0">>]}

ListQueries == FilterQueries \cup PageQueries \cup MixedQueries

InitRead ==
    /\ \E st \in ReadStores :
          /\ authors = st.authors
          /\ contents = st.contents
          /\ tags = st.tags
          /\ contentTags = st.contentTags
    /\ source = QuietSource
    /\ pull = IdlePull
    /\ ai = IdleAi
    /\ chains = [c \in Chains |-> NoChain]
    /\ posted = NothingPosted
    /\ reply = NoReply
    /\ beat = IdleBeat

NextRead ==
    \/ \E q \in ListQueries : ContentAPIView_get(q)
    \/ \E q \in FilterQueries : ContentStatsAPIView_get(q)
    \/ take_reply

SpecRead == InitRead /\ [][NextRead]_vars

----------------------------------------------------------------------------
(* Properties of the Comment-Post Task, under SpecPost *)

TwoXX(status) == status >= 200 /\ status < 300

\* The attempt of chain c ends in this step.
AttemptEnds(c) == chains[c].pc = "running" /\ chains'[c].pc # "running"

\* C1: a chain whose every POST is answered 503 makes 4 POSTs in all (the
\* first attempt and 3 retries), schedules nothing after the fourth, and
\* issues no UPDATE of a Content row.
C1_Retries503 ==
    \A c \in Chains :
        (chains[c].posts > 0 /\ chains[c].only503) =>
            /\ chains[c].posts <= 4
            /\ chains[c].retries <= 3
            /\ chains[c].updates = 0
            /\ chains[c].pc = "queued" => chains[c].posts <= 3
            /\ chains[c].pc = "done" => chains[c].posts = 4 /\ chains[c].retries = 3

C1_Witness ==
    \E c \in Chains :
        chains[c].pc = "done" /\ chains[c].only503 /\ chains[c].posts = 4

\* C2: the attempt that gets a 503 with the retry budget spent ends without an
\* exception leaving the task.
C2_ExhaustionCaught ==
    \A c \in Chains :
        (chains[c].pc = "done" /\ chains[c].last.status = 503) =>
            chains[c].raised = "none"

\* C3: an attempt that gets a 2xx response leaves every Content row of its
\* content_id with is_commented set, every other row and field as it was, and
\* schedules nothing.
C3_Any2xxMarks ==
    [][\A c \in Chains :
          (AttemptEnds(c) /\ TwoXX(chains'[c].last.status)) =>
              /\ chains'[c].pc = "done"
              /\ DOMAIN contents' = DOMAIN contents
              /\ \A i \in DOMAIN contents :
                    contents'[i] =
                       IF contents[i].unique_id = chains[c].content_id
                       THEN [contents[i] EXCEPT !.is_commented = TRUE]
                       ELSE contents[i]]_vars

\* C4: an attempt that gets a 400 whose body holds the skip phrase schedules
\* no retry, changes no Content row and returns.
C4_SkipIsTerminal ==
    [][\A c \in Chains :
          (AttemptEnds(c) /\ chains'[c].last = Response(400, <<SkipPhrase>>)) =>
              /\ chains'[c].pc = "done"
              /\ chains'[c].retries = chains[c].retries
              /\ chains'[c].updates = chains[c].updates
              /\ contents' = contents
              /\ chains'[c].raised = "none"]_vars

C4_Witness ==
    \E c \in Chains :
        /\ chains[c].pc = "done"
        /\ chains[c].last = Response(400, <<SkipPhrase>>)
        /\ chains[c].posts = 1

\* The failures of Section 4.3's last class: no response at all, or a status
\* that is neither 2xx nor 503 nor the 400 with the skip phrase.
OtherFailure(response) ==
    \/ response = NoResponse
    \/ /\ ~TwoXX(response.status)
       /\ response.status # 503
       /\ ~(response.status = 400 /\ Contains(response.text, SkipPhrase))

\* C5: an attempt that fails in any other way schedules no retry, changes no
\* Content row, and no exception leaves the task.
C5_OtherFailuresTerminal ==
    [][\A c \in Chains :
          (AttemptEnds(c) /\ OtherFailure(chains'[c].last)) =>
              /\ chains'[c].pc = "done"
              /\ chains'[c].retries = chains[c].retries
              /\ contents' = contents
              /\ chains'[c].raised = "none"]_vars

\* C21: at most one attempt of a chain executes at a time; a worker starts an
\* attempt of a chain only when none of its attempts executes, and a retry is
\* scheduled only by the attempt of the chain that is executing, with a
\* countdown.
C21_AttemptsSequential ==
    [][\A c \in Chains :
          /\ chains'[c].executing <= 1
          /\ post_final_comment_begin(c) =>
                 /\ chains[c].executing = 0
                 /\ chains[c].pc = "queued"
          /\ chains'[c].retries > chains[c].retries =>
                 /\ chains[c].pc = "running" /\ chains[c].executing = 1
                 /\ chains'[c].retries = chains[c].retries + 1
                 /\ chains'[c].pc = "retrying"]_vars

\* The second attempt of a chain executes; the first one has ended.
C21_Witness ==
    \E c \in Chains :
        /\ chains[c].pc = "running" /\ chains[c].retries = 1
        /\ chains[c].posts = 2 /\ chains[c].executing = 1

----------------------------------------------------------------------------
(* Properties of the Content table, under SpecStore and SpecPull *)

C7_OneRowPerUniqueId ==
    \A i, j \in DOMAIN contents :
        contents[i].unique_id = contents[j].unique_id => i = j

\* A run has ended that read an item whose stored row has another title.
C7_Witness ==
    /\ pull.pc = "idle" /\ pull.end # "none"
    /\ \E i \in DOMAIN contents, p \in 1..MaxPages :
          \E k \in DOMAIN source[p].data :
              /\ source[p].data[k].unq_external_id = contents[i].unique_id
              /\ source[p].data[k].unq_external_id \in pull.seen
              /\ source[p].data[k].title # contents[i].title

\* C8: a step of a run that meets the source as the run before it met it
\* creates no Content row and changes no field of any row.
C8_SecondRunIdempotent ==
    [][(pull.same /\ PullSteps) => contents' = contents]_vars

C8_Witness ==
    pull.pc = "idle" /\ pull.same /\ pull.end # "none" /\ pull.seen # {}

\* C9: when a run in which no page request failed has ended, the Store holds
\* a row for every unq_external_id of the data arrays the run read.
C9_EveryItemStored ==
    (pull.pc = "idle" /\ pull.end \in {"break", "raised"}) =>
        \A u \in pull.seen : RowsWithUniqueId(contents, u) # {}

\* C10: the pass whose page request fails ends the run at that page without
\* an exception leaving the task and without touching the Content rows; once
\* a run has ended, no page is requested until a run starts, at page 1.
C10_FailedRequestEndsRun ==
    [][/\ (\E res \in PageResults \ {"ok"} : pull_page(res)) =>
              /\ pull'.pc = "idle"
              /\ pull'.exc = "none"
              /\ pull'.page = pull.page
              /\ contents' = contents
       /\ (pull.pc = "idle" /\ pull'.pc = "running") => pull'.page = 1
       /\ (pull.pc = "idle" /\ pull'.pc = "idle") => pull'.page = pull.page]_vars

C10_Witness ==
    pull.pc = "idle" /\ pull.end = "RequestException" /\ pull.page = 2

\* C23: a run requests page 1 first; a pass whose page request succeeds is
\* followed by the request of the page its pagination.next names, and ends
\* the run, by the loop's break, when that next is falsy.
C23_FollowsNext ==
    [][/\ pull_start => pull'.pc = "running" /\ pull'.page = 1
       /\ pull_page("ok") =>
             IF source[pull.page].next # 0
             THEN pull'.pc = "running" /\ pull'.page = source[pull.page].next
             ELSE pull'.pc = "idle" /\ pull'.end = "break"]_vars

----------------------------------------------------------------------------
(* Properties of the Comment-Request Task, under SpecRequest *)

\* C11: a run of post_ai_comments makes its requests for the rows its queryset
\* returned in order, one per row, a failed request or not, and when the task
\* returns (its normal end) one request was made for every row.
C11_EveryRowRequested ==
    /\ ai.sent = [i \in 1..Len(ai.sent) |-> i]
    /\ Len(ai.sent) <= ai.rows
    /\ ai.failed \subseteq Range(ai.sent)
    /\ ai.pc = "returned" => Len(ai.sent) = ai.rows

\* A run over two rows has returned; the request for the first row failed.
C11_Witness ==
    ai.pc = "returned" /\ ai.rows = 2 /\ 1 \in ai.failed /\ ai.sent = <<1, 2>>

C25_CommentedRowsRequested ==
    [][/\ post_ai_comments_start =>
             /\ ai'.rows = Len(contents)
             /\ \A i \in DOMAIN contents : i \in Range(ai'.todo)
       /\ (ai.pc = "running" /\ ai' # ai) =>
             /\ ai'.sent = Append(ai.sent, Head(ai.todo))
             /\ contents[Head(ai.todo)].is_commented => Head(ai.todo) \in ai'.again
       /\ \A c \in Chains :
             post_final_comment_begin(c) => chains'[c].posts = chains[c].posts + 1]_vars

\* The request was made for a row that was commented already, and the first
\* POST of a further final comment for that content is under way.
C25_Witness ==
    \E i \in ai.again, c \in Chains :
        /\ contents[i].is_commented
        /\ chains[c].content_id = contents[i].unique_id
        /\ chains[c].pc = "running" /\ chains[c].posts = 1

----------------------------------------------------------------------------
(* Properties of the Write API, under SpecWrite *)

C13_OneTagOneLink ==
    /\ \A i, j \in DOMAIN tags : tags[i] = tags[j] => i = j
    /\ Range(tags) = {pr[2] : pr \in posted.pairs}
    /\ \A l \in contentTags : l[1] \in DOMAIN contents /\ l[2] \in DOMAIN tags
    /\ {<<contents[l[1]].unique_id, tags[l[2]]>> : l \in contentTags} = posted.pairs
    /\ Cardinality(contentTags) = Cardinality(posted.pairs)

\* C14: a request whose item raises leaves in the Store the writes of the
\* items before it and none of the writes of the item that raised.
C14_ItemAtomic ==
    [][(reply'.kind = "post" /\ reply'.exc # "none") =>
          \A data \in WriteRequests :
              ContentAPIView_post(data) =>
                  LET before == post_items(Store, SubSeq(data, 1, reply'.done), 0).store
                  IN  /\ authors' = before.authors
                      /\ contents' = before.contents
                      /\ tags' = before.tags
                      /\ contentTags' = before.contentTags]_vars

\* The batch of ContentTag rows the view hands to bulk_create for the item p
\* on the Store as it is.
Batch(p) ==
    LET au == update_or_create_author(authors, p.author)
        co == update_or_create(contents, p.unq_external_id, [author |-> au.id])
        tg == tags \o tags_to_create(tags, p.hashtags)
    IN  content_tags_to_create(tg, contentTags, co.id, p.hashtags)

\* C22: every POST of valid items is answered 201, also when an item names a
\* hashtag more than once; the batch of ContentTag rows of an item holds no
\* pair twice and no pair the Store holds already.
C22_RepeatedHashtagSucceeds ==
    /\ reply.kind = "post" => reply.status = 201
    /\ \A p \in WritePayloads :
          LET batch == Batch(p)
          IN  /\ \A i, j \in DOMAIN batch : batch[i] = batch[j] => i = j
              /\ Range(batch) \cap contentTags = {}

----------------------------------------------------------------------------
(* Properties of the Read API, under SpecRead *)

\* A response of the item-listing view that carries a page.
ListPage == reply.kind = "list" /\ reply.status = 200

\* C15: every item of a page carries total_engagement = like_count +
\* comment_count + share_count and engagement_rate = total_engagement /
\* max(view_count, 1), as an exact quotient.
C15_EngagementExact ==
    ListPage =>
        \A k \in DOMAIN reply.data :
            LET item == reply.data[k]
                row == contents[item.id]
            IN  /\ item.total_engagement =
                      row.like_count + row.comment_count + row.share_count
                /\ item.engagement_rate.num * Max(row.view_count, 1) =
                      item.total_engagement * item.engagement_rate.den

\* C16: a page holds at most 100 items and reports an items_per_page of at
\* most 100, whatever items_per_page the query carries.
C16_PageCeiling ==
    ListPage =>
        /\ Len(reply.data) <= 100
        /\ reply.pagination.items_per_page <= 100
        /\ Len(reply.data) <= reply.pagination.items_per_page

\* items_per_page=1000 was answered with a page of 100 items out of more.
C16_Witness ==
    /\ ListPage
    /\ "items_per_page" \in DOMAIN reply.query
    /\ reply.query["items_per_page"] = <<"1", "0", "0", "0">>
    /\ Len(reply.data) = 100
    /\ reply.pagination.total_items > 100
    /\ reply.pagination.has_next

\* The value of a page parameter the claim calls valid: a number above 0.
ValidNumber(q, name) == name \in DOMAIN q /\ int(q[name]).ok /\ int(q[name]).value >= 1

\* C17: a request that carries page parameters only is answered with a page,
\* whatever their values; a parameter that is missing or invalid takes its
\* default (page 1, 10 items per page), and a valid one is honoured (up to the
\* ceiling of 100 and the last page) whatever the other is.
C17_PageParamsFallBack ==
    (reply.kind = "list" /\ DOMAIN reply.query \subseteq PageNames) =>
        /\ reply.status = 200
        /\ reply.pagination.items_per_page =
              IF ValidNumber(reply.query, "items_per_page")
              THEN page_size(int(reply.query["items_per_page"]).value)
              ELSE DEFAULT_PAGE_SIZE
        /\ reply.pagination.current_page =
              IF ValidNumber(reply.query, "page")
              THEN IF int(reply.query["page"]).value <= reply.pagination.total_pages
                   THEN int(reply.query["page"]).value
                   ELSE reply.pagination.total_pages
              ELSE 1

\* The query q with no other filter than f, and no page parameter.
Alone(q, f) == [n \in {f} |-> q[n]]

\* C18: the rows the item-listing view selects are the rows every supplied
\* filter selects when it is the only filter, no row is selected twice, and
\* the page holds selected rows, none twice. A request one of whose filters
\* is refused is refused with that filter alone too.
C18_FiltersIntersect ==
    LET q == reply.query
        fs == DOMAIN q \cap FilterNames
    IN  /\ ListPage =>
              /\ Range(reply.selected) =
                    {i \in DOMAIN contents :
                        \A f \in fs : i \in Range(filtered(ordered_by_id_desc, Alone(q, f)).ids)}
              /\ \A j, k \in DOMAIN reply.selected :
                    reply.selected[j] = reply.selected[k] => j = k
              /\ \A j, k \in DOMAIN reply.data :
                    reply.data[j].id = reply.data[k].id => j = k
              /\ \A k \in DOMAIN reply.data : reply.data[k].id \in Range(reply.selected)
        /\ (reply.kind = "list" /\ reply.status = 500 /\ reply.exc = "ValueError") =>
              \E f \in fs : filtered(ordered_by_id_desc, Alone(q, f)).exc = "ValueError"

\* author_id=1&tag_id=2 selected one row where each filter alone selects two.
C18_Witness ==
    /\ ListPage
    /\ DOMAIN reply.query = {"author_id", "tag_id"}
    /\ Len(reply.selected) = 1
    /\ Len(filtered(ordered_by_id_desc, Alone(reply.query, "author_id")).ids) = 2
    /\ Len(filtered(ordered_by_id_desc, Alone(reply.query, "tag_id")).ids) = 2

\* The sum of a counter over the rows of ids; 0 over no row.
Total(ids, field) == SumOf(values(ids, F(field)))

\* C19: the stats view answers a query with total_contents = the total_items
\* the item-listing view counts for the same filters, with the sums of the
\* four counters over those rows, and with total_engagement = total_likes +
\* total_shares + total_comments, also when no row matches.
C19_StatsMatchListing ==
    (reply.kind = "stats" /\ reply.status = 200) =>
        LET listing == list_response(reply.query)
            ids == listing.selected
        IN  /\ listing.status = 200
            /\ reply.total_contents = <<listing.pagination.total_items>>
            /\ reply.total_likes = <<Total(ids, "like_count")>>
            /\ reply.total_shares = <<Total(ids, "share_count")>>
            /\ reply.total_comments = <<Total(ids, "comment_count")>>
            /\ reply.total_views = <<Total(ids, "view_count")>>
            /\ reply.total_engagement =
                  <<Total(ids, "like_count") + Total(ids, "share_count")
                      + Total(ids, "comment_count")>>

----------------------------------------------------------------------------
(* Properties of the scheduler, under SpecBeat *)

\* C24: every message the scheduler has sent names a registered task, and
\* the worker that takes a message starts that task: no message is dropped as
\* NotRegistered.
C24_TicksRunHandlers ==
    /\ \A k \in DOMAIN beat.queue : beat.queue[k] \in registered
    /\ beat.outcome # "NotRegistered"

====
